---- MODULE Spec2Model ----
(***************************************************************************)
(* A model of the chicago-lots bot: the SQLite-backed PIN store             *)
(* (src/src/database/pin_database.py), the Street View client               *)
(* (src/src/image/street_view.py), the Bluesky client                       *)
(* (src/src/social/bluesky.py) and the driving loop of src/src/__main__.py. *)
(***************************************************************************)
EXTENDS Integers, Sequences, FiniteSets, TLC

(***************************************************************************)
(* Bounds of the model.                                                     *)
(***************************************************************************)
\* number of distinct PINs that can be in the pins table
NumPins == 2
\* config['database']['batch_size'] (config.yaml is not part of the sources)
BatchSize == 2
\* datetime.now() takes a value in 1..MaxTime
MaxTime == 1
\* posts the platform accepts for one PIN before it only rejects
MaxPostsPerPin == 2
\* rows of post_history the direct store calls of StoreSpec may create
MaxHistory == 3
\* largest error_count the direct store calls of StoreSpec may produce
MaxErrorCount == 4
\* largest value of the parameter retries in the direct calls of get_location
MaxRetries == 3

\* "error_count < 3" / "error_count >= 3" of the store's queries
ErrorLimit == 3

Pins == 1..NumPins
Times == 1..MaxTime
Addresses == {"a1", "a2"}

\* SQL NULL / Python None for a timestamp, a text column, a path, a uri
NullTime == 0
NullText == "NULL"
None == <<>>
NoToken == "None"

VARIABLES
    pins,           \* table pins: pin -> row (only the PINs present)
    history,        \* table post_history, in insertion order
    txn_open,       \* statements executed on the connection and not committed
    conn_open,      \* PINDatabase.conn is open
    ret,            \* the last direct call of a method and what it returned
    stats,          \* main: stats
    batch,          \* main: properties
    idx,            \* main: position of prop in properties (1-based)
    image_result,   \* main: image_result
    post_uri,       \* main: post_uri
    exc,            \* main: str(e) of the exception caught per record
    auth_token,     \* BlueskyClient.auth_token
    created,        \* platform: posts created so far, per PIN
    pc,             \* main: the statement about to run
    interrupted_at  \* the value of pc when KeyboardInterrupt was raised

storeVars == <<pins, history, txn_open, conn_open, ret>>
mainVars == <<stats, batch, idx, image_result, post_uri, exc, pc, interrupted_at>>
vars == <<pins, history, txn_open, conn_open, ret, stats, batch, idx,
          image_result, post_uri, exc, auth_token, created, pc, interrupted_at>>

(***************************************************************************)
(* Helpers.                                                                 *)
(***************************************************************************)
Min(a, b) == IF a <= b THEN a ELSE b

Range(s) == {s[i] : i \in 1..Len(s)}

\* ORDER BY pin
RECURSIVE SortedSeq(_)
SortedSeq(S) ==
    IF S = {} THEN <<>>
    ELSE LET m == CHOOSE x \in S : \A y \in S : x <= y
         IN  <<m>> \o SortedSeq(S \ {m})

\* number of post_history rows of a pin
HistCount(h, p) == Cardinality({i \in 1..Len(h) : h[i].pin = p})

(***************************************************************************)
(* PINDatabase                                                              *)
(***************************************************************************)
\* a row as INSERT INTO pins (pin, address, ...) creates it: the column defaults
NewRow(address) ==
    [address |-> address, posted |-> 0, post_date |-> NullTime,
     error_count |-> 0, last_error |-> NullText]

\* INSERT OR REPLACE: an existing row of that pin is deleted and a new row
\* inserted, so every column not named takes its default again
add_pin(tbl, pin, address) ==
    [p \in (DOMAIN tbl) \cup {pin} |-> IF p = pin THEN NewRow(address) ELSE tbl[p]]

\* WHERE posted = 0 AND error_count < 3
Eligible(tbl) ==
    {p \in DOMAIN tbl : tbl[p].posted = 0 /\ tbl[p].error_count < ErrorLimit}

\* WHERE posted = 0 (the filter without the error bound)
EligibleNoErrorBound(tbl) ==
    {p \in DOMAIN tbl : tbl[p].posted = 0}

\* get_next_unposted with "AND error_count < 3" left out of the query
get_next_unposted_no_error_bound(tbl, batch_size, ok) ==
    IF ~ok THEN <<>>
    ELSE LET s == SortedSeq(EligibleNoErrorBound(tbl))
         IN  [i \in 1..Min(batch_size, Len(s)) |->
                 [pin |-> s[i], address |-> tbl[s[i]].address]]

\* ORDER BY pin DESC
RECURSIVE SortedSeqDesc(_)
SortedSeqDesc(S) ==
    IF S = {} THEN <<>>
    ELSE LET m == CHOOSE x \in S : \A y \in S : x >= y
         IN  <<m>> \o SortedSeqDesc(S \ {m})

\* get_next_unposted with the rows taken in descending order of pin
get_next_unposted_descending(tbl, batch_size, ok) ==
    IF ~ok THEN <<>>
    ELSE LET s == SortedSeqDesc(Eligible(tbl))
         IN  [i \in 1..Min(batch_size, Len(s)) |->
                 [pin |-> s[i], address |-> tbl[s[i]].address]]

\* SELECT ... WHERE ... ORDER BY pin LIMIT ?   (ok = FALSE: sqlite3.Error -> [])
get_next_unposted(tbl, batch_size, ok) ==
    IF ~ok THEN <<>>
    ELSE LET s == SortedSeq(Eligible(tbl))
         IN  [i \in 1..Min(batch_size, Len(s)) |->
                 [pin |-> s[i], address |-> tbl[s[i]].address]]

\* the points at which a store write can raise sqlite3.Error
MarkFailures == {"ok", "fail_update", "fail_insert", "fail_commit"}
ErrorFailures == {"ok", "fail_update", "fail_commit"}

\* the UPDATE of mark_posted setting post_date only
UpdatePostDateOnly(tbl, pin, now) ==
    [p \in DOMAIN tbl |->
        IF p = pin THEN [tbl[p] EXCEPT !.post_date = now] ELSE tbl[p]]

\* UPDATE pins SET posted = 1, post_date = ? WHERE pin = ?
UpdatePosted(tbl, pin, now) ==
    [p \in DOMAIN tbl |->
        IF p = pin THEN [tbl[p] EXCEPT !.posted = 1, !.post_date = now] ELSE tbl[p]]

\* INSERT INTO post_history (pin, post_date, post_id, image_path)
InsertHistory(h, pin, now, post_id, image_path) ==
    Append(h, [pin |-> pin, post_date |-> now, post_id |-> post_id,
               image_path |-> image_path])

\* mark_posted: UPDATE, INSERT, commit; a sqlite3.Error at any of the three is
\* caught, nothing is rolled back, and False is returned.  The result is the
\* connection's view of the tables, whether statements are left uncommitted,
\* and the return value.
mark_posted(tbl, h, txn, pin, post_id, image_path, now, fail) ==
    CASE fail = "fail_update" ->
            [pins |-> tbl, history |-> h, txn_open |-> txn, ret |-> FALSE]
      [] fail = "fail_insert" ->
            [pins |-> UpdatePosted(tbl, pin, now), history |-> h,
             txn_open |-> TRUE, ret |-> FALSE]
      [] fail = "fail_commit" ->
            [pins |-> UpdatePosted(tbl, pin, now),
             history |-> InsertHistory(h, pin, now, post_id, image_path),
             txn_open |-> TRUE, ret |-> FALSE]
      [] OTHER ->
            [pins |-> UpdatePosted(tbl, pin, now),
             history |-> InsertHistory(h, pin, now, post_id, image_path),
             txn_open |-> FALSE, ret |-> TRUE]

\* UPDATE pins SET error_count = error_count + 1, last_error = ? WHERE pin = ?
UpdateError(tbl, pin, msg) ==
    [p \in DOMAIN tbl |->
        IF p = pin
        THEN [tbl[p] EXCEPT !.error_count = @ + 1, !.last_error = msg]
        ELSE tbl[p]]

\* record_error: UPDATE, commit; sqlite3.Error is caught and False returned
record_error(tbl, txn, pin, msg, fail) ==
    CASE fail = "fail_update" ->
            [pins |-> tbl, txn_open |-> txn, ret |-> FALSE]
      [] fail = "fail_commit" ->
            [pins |-> UpdateError(tbl, pin, msg), txn_open |-> TRUE, ret |-> FALSE]
      [] OTHER ->
            [pins |-> UpdateError(tbl, pin, msg), txn_open |-> FALSE, ret |-> TRUE]

\* SUM(...) over no rows is NULL: row[0] - row[1] - row[2] raises TypeError,
\* which is no sqlite3.Error and leaves get_statistics
StatisticsRaises(tbl) == DOMAIN tbl = {}

\* the empty dict get_statistics returns on sqlite3.Error
EmptyStats == [empty |-> TRUE]

\* get_statistics on a table with at least one row (ok = FALSE: sqlite3.Error -> {})
get_statistics(tbl, ok) ==
    IF ~ok THEN EmptyStats
    ELSE LET total  == Cardinality(DOMAIN tbl)
             posted == Cardinality({p \in DOMAIN tbl : tbl[p].posted = 1})
             failed == Cardinality({p \in DOMAIN tbl : tbl[p].error_count >= ErrorLimit})
         IN  [total_pins |-> total, posted_count |-> posted,
              failed_count |-> failed, remaining |-> total - posted - failed]

(***************************************************************************)
(* StreetViewClient                                                         *)
(***************************************************************************)
\* get_location(address, retries = 3)
Retries == 3

\* what one call of geolocator.geocode can do
GeocodeOutcomes == {"match", "nomatch", "timeout", "unavailable", "error"}

\* 2 ** attempt
RECURSIVE Pow2(_)
Pow2(n) == IF n = 0 THEN 1 ELSE 2 * Pow2(n - 1)

\* the for loop of get_location from iteration `attempt` on; outs[attempt + 1]
\* is what geocode does in that iteration.  The result carries the location
\* returned (None when the loop ends without one; <<k>> is the location that
\* the k-th geocode call answered), the geocode calls made and the seconds
\* slept.
RECURSIVE GeocodeLoopRetryUnavailable(_, _, _, _, _)
\* the loop with GeocoderUnavailable handled like GeocoderTimedOut
GeocodeLoopRetryUnavailable(outs, attempt, retries, calls, slept) ==
    IF attempt >= retries
    THEN [location |-> None, calls |-> calls, slept |-> slept]
    ELSE LET o == outs[attempt + 1]
         IN  CASE o = "match" ->
                    [location |-> <<attempt + 1>>, calls |-> calls + 1,
                     slept |-> slept]
               [] o = "nomatch" ->
                    GeocodeLoopRetryUnavailable(outs, attempt + 1, retries,
                                                calls + 1, slept + 1)
               [] o \in {"timeout", "unavailable"} ->
                    GeocodeLoopRetryUnavailable(outs, attempt + 1, retries,
                                                calls + 1, slept + Pow2(attempt))
               [] OTHER ->
                    [location |-> None, calls |-> calls + 1, slept |-> slept]

RECURSIVE GeocodeLoopLinearBackoff(_, _, _, _, _)
\* the loop sleeping attempt + 1 seconds after a timeout
GeocodeLoopLinearBackoff(outs, attempt, retries, calls, slept) ==
    IF attempt >= retries
    THEN [location |-> None, calls |-> calls, slept |-> slept]
    ELSE LET o == outs[attempt + 1]
         IN  CASE o = "match" ->
                    [location |-> <<attempt + 1>>, calls |-> calls + 1,
                     slept |-> slept]
               [] o = "nomatch" ->
                    GeocodeLoopLinearBackoff(outs, attempt + 1, retries,
                                             calls + 1, slept + 1)
               [] o = "timeout" ->
                    GeocodeLoopLinearBackoff(outs, attempt + 1, retries,
                                             calls + 1, slept + attempt + 1)
               [] OTHER ->
                    [location |-> None, calls |-> calls + 1, slept |-> slept]

RECURSIVE GeocodeLoop(_, _, _, _, _)
GeocodeLoop(outs, attempt, retries, calls, slept) ==
    IF attempt >= retries
    THEN [location |-> None, calls |-> calls, slept |-> slept]
    ELSE LET o == outs[attempt + 1]
         IN  CASE o = "match" ->
                    [location |-> <<attempt + 1>>, calls |-> calls + 1,
                     slept |-> slept]
               [] o = "nomatch" ->
                    GeocodeLoop(outs, attempt + 1, retries, calls + 1, slept + 1)
               [] o = "timeout" ->
                    GeocodeLoop(outs, attempt + 1, retries, calls + 1,
                                slept + Pow2(attempt))
               [] OTHER ->
                    [location |-> None, calls |-> calls + 1, slept |-> slept]

\* get_location giving up one iteration early
get_location_one_fewer(outs, retries) == GeocodeLoop(outs, 0, retries - 1, 0, 0)

get_location(outs, retries) == GeocodeLoop(outs, 0, retries, 0, 0)

\* every way the geocoder can answer the calls of one get_location
GeocodeRuns == [1..Retries -> GeocodeOutcomes]

\* the runs in which the geocoder answers every call alike
UniformGeocodeRuns == {[i \in 1..Retries |-> o] : o \in GeocodeOutcomes}

\* what the imagery request can do
ImageResponses ==
    {"200_image", "200_image_empty", "200_not_image", "error_status",
     "request_exception"}

\* get_street_view_image without the test of the content type
get_street_view_image_any_200(resp) ==
    IF resp \in {"200_image", "200_not_image"} THEN <<"bytes">>
    ELSE IF resp = "200_image_empty" THEN <<>>
    ELSE None

\* get_street_view_image: the bytes of the image, or None
get_street_view_image(resp) ==
    IF resp = "200_image" THEN <<"bytes">>
    ELSE IF resp = "200_image_empty" THEN <<>>
    ELSE None

\* the imagery requests one process_location sends: get_street_view_image is
\* called once, and only with a location
image_requests(outs) ==
    IF get_location(outs, Retries).location = None THEN 0 ELSE 1

\* process_location: geocode, fetch, save; wr = FALSE is an IOError on write
process_location(pin, address, outs, resp, wr, t) ==
    LET location   == get_location(outs, Retries).location
        image_data == get_street_view_image(resp)
        result     == [pin |-> pin, address |-> address, status |-> "error",
                       image_path |-> None, error |-> NullText]
    IN  IF location = None
        THEN [result EXCEPT !.error = "Geocoding failed"]
        ELSE IF image_data = <<>>
        THEN [result EXCEPT !.error = "No Street View image available"]
        ELSE IF wr
        THEN [result EXCEPT !.status = "success", !.image_path = <<pin, t>>]
        ELSE [result EXCEPT !.error = "Failed to save image"]

(***************************************************************************)
(* BlueskyClient                                                            *)
(***************************************************************************)
\* (a 200 of com.atproto.server.createSession carries accessJwt and did)
AuthResponses == {"200", "401", "request_exception"}
UploadResponses == {"200", "io_error", "error_status", "request_exception"}
CreateResponses == {"200", "error_status", "request_exception"}

\* _authenticate: the token held afterwards and the value returned
authenticate(token, resp) ==
    CASE resp = "200"        -> [auth_token |-> "jwt", ok |-> TRUE]
      [] OTHER               -> [auth_token |-> token, ok |-> FALSE]

\* _upload_image: the blob reference, or None
upload_image(resp) == IF resp = "200" THEN <<"blob">> ELSE None

\* post giving up when the upload of the image fails
post_abort_on_upload_failure(token, pin, n, image_path, authResp, uploadResp, createResp) ==
    LET needAuth == token = NoToken
        auth     == IF needAuth THEN authenticate(token, authResp)
                    ELSE [auth_token |-> token, ok |-> TRUE]
        authReq  == IF needAuth THEN <<"createSession">> ELSE <<>>
        blob     == IF image_path # None THEN upload_image(uploadResp) ELSE None
        upReq    == IF image_path # None /\ uploadResp # "io_error"
                    THEN <<"uploadBlob">> ELSE <<>>
        crReq    == <<IF blob # None THEN "createRecord+embed" ELSE "createRecord">>
    IN  IF ~auth.ok
        THEN [outcome |-> "raise", uri |-> None, auth_token |-> auth.auth_token,
              requests |-> authReq]
        ELSE IF image_path # None /\ blob = None
        THEN [outcome |-> "none", uri |-> None, auth_token |-> auth.auth_token,
              requests |-> authReq \o upReq]
        ELSE IF createResp = "200"
        THEN [outcome |-> "uri", uri |-> <<pin, n>>, auth_token |-> auth.auth_token,
              requests |-> authReq \o upReq \o crReq]
        ELSE [outcome |-> "none", uri |-> None, auth_token |-> auth.auth_token,
              requests |-> authReq \o upReq \o crReq]

\* post going on whatever _authenticate returns
post_ignoring_authentication(token, pin, n, image_path, authResp, uploadResp, createResp) ==
    LET needAuth == token = NoToken
        auth     == IF needAuth THEN authenticate(token, authResp)
                    ELSE [auth_token |-> token, ok |-> TRUE]
        authReq  == IF needAuth THEN <<"createSession">> ELSE <<>>
        blob     == IF image_path # None THEN upload_image(uploadResp) ELSE None
        upReq    == IF image_path # None /\ uploadResp # "io_error"
                    THEN <<"uploadBlob">> ELSE <<>>
        crReq    == <<IF blob # None THEN "createRecord+embed" ELSE "createRecord">>
    IN  IF createResp = "200"
        THEN [outcome |-> "uri", uri |-> <<pin, n>>, auth_token |-> auth.auth_token,
              requests |-> authReq \o upReq \o crReq]
        ELSE [outcome |-> "none", uri |-> None, auth_token |-> auth.auth_token,
              requests |-> authReq \o upReq \o crReq]

\* post calling _authenticate whether or not a token is held
post_always_authenticating(token, pin, n, image_path, authResp, uploadResp, createResp) ==
    LET auth     == authenticate(token, authResp)
        authReq  == <<"createSession">>
        blob     == IF image_path # None THEN upload_image(uploadResp) ELSE None
        upReq    == IF image_path # None /\ uploadResp # "io_error"
                    THEN <<"uploadBlob">> ELSE <<>>
        crReq    == <<IF blob # None THEN "createRecord+embed" ELSE "createRecord">>
    IN  IF ~auth.ok
        THEN [outcome |-> "raise", uri |-> None, auth_token |-> auth.auth_token,
              requests |-> authReq]
        ELSE IF createResp = "200"
        THEN [outcome |-> "uri", uri |-> <<pin, n>>, auth_token |-> auth.auth_token,
              requests |-> authReq \o upReq \o crReq]
        ELSE [outcome |-> "none", uri |-> None, auth_token |-> auth.auth_token,
              requests |-> authReq \o upReq \o crReq]

\* post(text, image_path) for the n-th post of a pin: what the caller gets
\* ("uri", "none" or "raise"), the uri, the token held afterwards and the
\* requests sent, in order
post(token, pin, n, image_path, authResp, uploadResp, createResp) ==
    LET needAuth == token = NoToken
        auth     == IF needAuth THEN authenticate(token, authResp)
                    ELSE [auth_token |-> token, ok |-> TRUE]
        authReq  == IF needAuth THEN <<"createSession">> ELSE <<>>
        blob     == IF image_path # None THEN upload_image(uploadResp) ELSE None
        upReq    == IF image_path # None /\ uploadResp # "io_error"
                    THEN <<"uploadBlob">> ELSE <<>>
        crReq    == <<IF blob # None THEN "createRecord+embed" ELSE "createRecord">>
    IN  IF ~auth.ok
        THEN [outcome |-> "raise", uri |-> None, auth_token |-> auth.auth_token,
              requests |-> authReq]
        ELSE IF createResp = "200"
        THEN [outcome |-> "uri", uri |-> <<pin, n>>, auth_token |-> auth.auth_token,
              requests |-> authReq \o upReq \o crReq]
        ELSE [outcome |-> "none", uri |-> None, auth_token |-> auth.auth_token,
              requests |-> authReq \o upReq \o crReq]

(***************************************************************************)
(* main: the driving loop                                                   *)
(***************************************************************************)
\* the statements of the try body of the while loop
TryBodyPcs ==
    {"stats", "fetch", "idle", "image", "rec_image_error", "post", "mark",
     "rec_post_failed", "rec_exception", "sleep"}

\* the statements between taking prop from the batch and the store call that
\* records its outcome (the store call included)
RecordPcs ==
    {"image", "rec_image_error", "post", "mark", "rec_post_failed", "rec_exception"}

\* the three places that call db.record_error
RecordErrorPcs == {"rec_image_error", "rec_post_failed", "rec_exception"}

\* prop of "for prop in properties"
prop == batch[idx]

NoCall == [op |-> "none", pin |-> 0, ok |-> FALSE]

\* image_result before process_location has returned
NoResult == [pin |-> 0, address |-> "a1", status |-> "error",
             image_path |-> None, error |-> NullText]

TypeOK ==
    /\ DOMAIN pins \subseteq Pins
    /\ \A p \in DOMAIN pins :
          /\ pins[p].posted \in {0, 1}
          /\ pins[p].post_date \in {NullTime} \cup Times
          /\ pins[p].error_count \in Nat
          /\ pins[p].address \in Addresses
    /\ txn_open \in BOOLEAN
    /\ conn_open \in BOOLEAN
    /\ auth_token \in {NoToken, "jwt"}
    /\ created \in [Pins -> 0..MaxPostsPerPin]
    /\ idx \in 0..BatchSize
    /\ Len(batch) <= BatchSize

\* The database file holds any set of imported PINs, none processed yet;
\* PINDatabase.__init__ connects, BlueskyClient.__init__ holds no token.
Init ==
    /\ \E S \in SUBSET Pins : pins = [p \in S |-> NewRow("a1")]
    /\ history = <<>>
    /\ txn_open = FALSE
    /\ conn_open = TRUE
    /\ ret = NoCall
    /\ stats = EmptyStats
    /\ batch = <<>>
    /\ idx = 0
    /\ image_result = NoResult
    /\ post_uri = None
    /\ exc = NullText
    /\ auth_token = NoToken
    /\ created = [p \in Pins |-> 0]
    /\ pc = "stats"
    /\ interrupted_at = "none"

\* stats = db.get_statistics(); logger.info(stats)
\* main only logs the value, so the loop does not keep it: what the call does
\* to the loop is to raise or to return.
GetStatistics ==
    /\ pc = "stats"
    /\ pc' = IF StatisticsRaises(pins) THEN "cooldown" ELSE "fetch"
    /\ UNCHANGED <<storeVars, stats, batch, idx, image_result, post_uri, exc,
                   auth_token, created, interrupted_at>>

\* properties = db.get_next_unposted(batch_size); if not properties: ...
GetNextUnposted ==
    /\ pc = "fetch"
    /\ \E ok \in BOOLEAN :
          /\ batch' = get_next_unposted(pins, BatchSize, ok)
          /\ IF batch' = <<>>
             THEN pc' = "idle" /\ idx' = 0
             ELSE pc' = "image" /\ idx' = 1
    /\ UNCHANGED <<storeVars, stats, image_result, post_uri, exc,
                   auth_token, created, interrupted_at>>

\* time.sleep(post_interval); continue   (the batch was empty)
IdleSleep ==
    /\ pc = "idle"
    /\ pc' = "stats"
    /\ UNCHANGED <<storeVars, stats, batch, idx, image_result, post_uri, exc,
                   auth_token, created, interrupted_at>>

\* main going on to the post whatever image_result holds
AfterImageAlwaysPost(result) == "post"

\* where main goes with image_result: line 62
AfterImage(result) ==
    IF result.status = "error" THEN "rec_image_error" ELSE "post"

\* image_result = street_view.process_location(prop['pin'], prop['address'])
ProcessLocation ==
    /\ pc = "image"
    /\ \E outs \in UniformGeocodeRuns, resp \in ImageResponses,
          wr \in BOOLEAN, t \in Times :
          image_result' = process_location(prop.pin, prop.address, outs, resp, wr, t)
    /\ pc' = AfterImage(image_result')
    /\ UNCHANGED <<storeVars, stats, batch, idx, post_uri, exc,
                   auth_token, created, interrupted_at>>

\* the end of one pass of the for loop body without the trailing sleep
\* ("continue"): the next prop, or the top of the while loop
\* image_result, post_uri and e are assigned again before they are read
\* again, so the model forgets them here.
Continue ==
    /\ IF idx < Len(batch)
       THEN pc' = "image" /\ idx' = idx + 1
       ELSE pc' = "stats" /\ idx' = idx
    /\ image_result' = NoResult
    /\ post_uri' = None
    /\ exc' = NullText

\* where record_error at line 64 leaves the loop body: "continue"
AfterImageError == Continue

\* the call db.record_error(prop['pin'], msg) made by main, which does not
\* look at the value returned
CallRecordError(msg) ==
    \E fail \in ErrorFailures :
        LET r == record_error(pins, txn_open, prop.pin, msg, fail)
        IN  /\ pins' = r.pins
            /\ txn_open' = r.txn_open
            /\ UNCHANGED <<history, conn_open, ret>>

\* db.record_error(prop['pin'], image_result['error']); continue
RecordImageError ==
    /\ pc = "rec_image_error"
    /\ CallRecordError(image_result.error)
    /\ AfterImageError
    /\ UNCHANGED <<stats, batch, auth_token, created, interrupted_at>>

\* AfterPost without the per-record "except Exception": what post raises
\* reaches the handler of the while loop
AfterPostNoHandler(outcome) ==
    CASE outcome = "uri"  -> "mark"
      [] outcome = "none" -> "rec_post_failed"
      [] OTHER            -> "cooldown"

\* where main goes with what bluesky.post did: lines 71-80
AfterPost(outcome) ==
    CASE outcome = "uri"  -> "mark"
      [] outcome = "none" -> "rec_post_failed"
      [] OTHER            -> "rec_exception"

\* post_uri = bluesky.post(post_text, image_result['image_path'])
\* The platform creates a post only for a request that carries a token.
Post ==
    /\ pc = "post"
    /\ \E a \in AuthResponses, u \in UploadResponses, c \in CreateResponses :
          LET r == post(auth_token, prop.pin, created[prop.pin] + 1,
                        image_result.image_path, a, u, c)
          IN  /\ r.outcome = "uri" =>
                     r.auth_token = "jwt" /\ created[prop.pin] < MaxPostsPerPin
              /\ auth_token' = r.auth_token
              /\ created' = IF r.outcome = "uri"
                            THEN [created EXCEPT ![prop.pin] = @ + 1]
                            ELSE created
              /\ post_uri' = IF r.outcome = "raise" THEN post_uri ELSE r.uri
              /\ exc' = IF r.outcome = "raise" THEN "Authentication failed" ELSE exc
              /\ pc' = AfterPost(r.outcome)
    /\ UNCHANGED <<storeVars, stats, batch, idx, image_result, interrupted_at>>

\* db.mark_posted(prop['pin'], post_uri, image_result['image_path'])
\* (the value returned is not looked at)
MarkPosted ==
    /\ pc = "mark"
    /\ \E now \in Times, fail \in MarkFailures :
          LET r == mark_posted(pins, history, txn_open, prop.pin, post_uri,
                               image_result.image_path, now, fail)
          IN  /\ pins' = r.pins
              /\ history' = r.history
              /\ txn_open' = r.txn_open
    /\ pc' = "sleep"
    /\ UNCHANGED <<conn_open, ret, stats, batch, idx, image_result, post_uri, exc,
                   auth_token, created, interrupted_at>>

\* db.record_error(prop['pin'], "Failed to create Bluesky post")
RecordPostFailed ==
    /\ pc = "rec_post_failed"
    /\ CallRecordError("Failed to create Bluesky post")
    /\ pc' = "sleep"
    /\ UNCHANGED <<stats, batch, idx, image_result, post_uri, exc,
                   auth_token, created, interrupted_at>>

\* except Exception as e: db.record_error(prop['pin'], str(e))
RecordException ==
    /\ pc = "rec_exception"
    /\ CallRecordError(exc)
    /\ pc' = "sleep"
    /\ UNCHANGED <<stats, batch, idx, image_result, post_uri, exc,
                   auth_token, created, interrupted_at>>

\* time.sleep(post_interval) at the end of the for loop body
PostIntervalSleep ==
    /\ pc = "sleep"
    /\ Continue
    /\ UNCHANGED <<storeVars, stats, batch, auth_token, created, interrupted_at>>

\* except Exception: time.sleep(60), then the next pass of the while loop
Cooldown ==
    /\ pc = "cooldown"
    /\ pc' = "stats"
    /\ UNCHANGED <<storeVars, stats, batch, idx, image_result, post_uri, exc,
                   auth_token, created, interrupted_at>>

\* where a KeyboardInterrupt raised at statement `at` takes main: inside the
\* try body to "except KeyboardInterrupt"; in the handler of "except Exception"
\* (the cooldown sleep) it is caught nowhere and leaves main
InterruptTarget(at) ==
    IF at \in TryBodyPcs THEN "shutdown" ELSE "crashed"

\* Ctrl-C while the loop runs
KeyboardInterrupt ==
    /\ pc \in TryBodyPcs \cup {"cooldown"}
    /\ interrupted_at' = pc
    /\ pc' = InterruptTarget(pc)
    /\ UNCHANGED <<storeVars, stats, batch, idx, image_result, post_uri, exc,
                   auth_token, created>>

\* break; db.close()
\* (close() commits nothing: statements still uncommitted are lost with the
\* connection; the tables keep showing the connection's last view)
Shutdown ==
    /\ pc = "shutdown"
    /\ conn_open' = FALSE
    /\ pc' = "done"
    /\ UNCHANGED <<pins, history, txn_open, ret, stats, batch, idx, image_result,
                   post_uri, exc, auth_token, created, interrupted_at>>

\* the loop without the interrupt
LoopNext ==
    \/ GetStatistics
    \/ GetNextUnposted
    \/ IdleSleep
    \/ ProcessLocation
    \/ RecordImageError
    \/ Post
    \/ MarkPosted
    \/ RecordPostFailed
    \/ RecordException
    \/ PostIntervalSleep
    \/ Cooldown

Next ==
    \/ LoopNext
    \/ KeyboardInterrupt
    \/ Shutdown

Spec == Init /\ [][Next]_vars

\* the loop left alone: no interrupt, and the single thread of control keeps
\* running
RunSpec == Init /\ [][LoopNext]_vars /\ WF_vars(LoopNext)

(***************************************************************************)
(* The store called directly, as test_post.py and any other client of       *)
(* PINDatabase do: any method, any PIN, in any order.  The caller keeps     *)
(* only what the last call returned.                                        *)
(***************************************************************************)
\* the message test_post.py records
StoreMessage == "Failed to create post"

clientVars == <<idx, image_result, post_uri, exc, auth_token, created, pc,
                interrupted_at>>

\* db.add_pin(pin, address, lat, lon)   (ok = FALSE: sqlite3.Error -> False)
StoreAddPin ==
    /\ \E p \in Pins, a \in Addresses, ok \in BOOLEAN :
          /\ pins' = IF ok THEN add_pin(pins, p, a) ELSE pins
          /\ txn_open' = IF ok THEN FALSE ELSE txn_open
          /\ ret' = [op |-> "add_pin", pin |-> p, ok |-> ok]
    /\ batch' = <<>>
    /\ stats' = EmptyStats
    /\ UNCHANGED <<history, conn_open, clientVars>>

\* db.get_next_unposted(batch_size)
StoreGetNextUnposted ==
    /\ \E n \in 0..(NumPins + 1), ok \in BOOLEAN :
          /\ batch' = get_next_unposted(pins, n, ok)
          /\ ret' = [op |-> "get_next_unposted", pin |-> n, ok |-> ok]
    /\ stats' = EmptyStats
    /\ UNCHANGED <<pins, history, txn_open, conn_open, clientVars>>

\* db.mark_posted(pin, post_uri, None)
StoreMarkPosted ==
    /\ Len(history) < MaxHistory
    /\ \E p \in Pins, now \in Times, fail \in MarkFailures :
          LET r == mark_posted(pins, history, txn_open, p,
                               <<p, HistCount(history, p) + 1>>, None, now, fail)
          IN  /\ pins' = r.pins
              /\ history' = r.history
              /\ txn_open' = r.txn_open
              /\ ret' = [op |-> "mark_posted", pin |-> p, ok |-> r.ret]
    /\ batch' = <<>>
    /\ stats' = EmptyStats
    /\ UNCHANGED <<conn_open, clientVars>>

\* db.record_error(pin, "Failed to create post")
StoreRecordError ==
    /\ \E p \in Pins, fail \in ErrorFailures :
          /\ p \in DOMAIN pins => pins[p].error_count < MaxErrorCount
          /\ LET r == record_error(pins, txn_open, p, StoreMessage, fail)
             IN  /\ pins' = r.pins
                 /\ txn_open' = r.txn_open
                 /\ ret' = [op |-> "record_error", pin |-> p, ok |-> r.ret]
    /\ batch' = <<>>
    /\ stats' = EmptyStats
    /\ UNCHANGED <<history, conn_open, clientVars>>

\* what a call of get_statistics that raised leaves with the caller
StatsRaised == [raised |-> TRUE]

\* db.get_statistics()
StoreGetStatistics ==
    /\ \E ok \in BOOLEAN :
          /\ stats' = IF ok /\ StatisticsRaises(pins) THEN StatsRaised
                      ELSE get_statistics(pins, ok)
          /\ ret' = [op |-> "get_statistics", pin |-> 0, ok |-> ok]
    /\ batch' = <<>>
    /\ UNCHANGED <<pins, history, txn_open, conn_open, clientVars>>

StoreNext ==
    \/ StoreAddPin
    \/ StoreGetNextUnposted
    \/ StoreMarkPosted
    \/ StoreRecordError
    \/ StoreGetStatistics

StoreSpec == Init /\ [][StoreNext]_vars

(***************************************************************************)
(* StreetViewClient.get_location called directly, with any value of         *)
(* retries and any answers of the geocoder.                                 *)
(***************************************************************************)
\* street_view.get_location(address, retries)
GetLocation ==
    /\ \E n \in 0..MaxRetries :
          \E outs \in [1..n -> GeocodeOutcomes] :
              ret' = [op |-> "get_location", retries |-> n, outs |-> outs,
                      result |-> get_location(outs, n)]
    /\ UNCHANGED <<pins, history, txn_open, conn_open, stats, batch, clientVars>>

GeoNext == GetLocation

GeoSpec == Init /\ [][GeoNext]_vars

(***************************************************************************)
(* StreetViewClient.process_location called directly, as main() of          *)
(* street_view.py does, with any answers of the geocoder and of the imagery *)
(* service and a write that succeeds or not.                                *)
(***************************************************************************)
\* result = self.process_location(location['pin'], location['address'])
CallProcessLocation ==
    /\ \E p \in Pins, a \in Addresses, outs \in UniformGeocodeRuns,
          resp \in ImageResponses, wr \in BOOLEAN, t \in Times :
          ret' = [op |-> "process_location", pin |-> p, address |-> a,
                  outs |-> outs, resp |-> resp, wr |-> wr,
                  requests |-> image_requests(outs),
                  result |-> process_location(p, a, outs, resp, wr, t)]
    /\ UNCHANGED <<pins, history, txn_open, conn_open, stats, batch, clientVars>>

AcquireNext == CallProcessLocation

AcquireSpec == Init /\ [][AcquireNext]_vars

(***************************************************************************)
(* BlueskyClient.post called directly, as test_post.py does, any number of  *)
(* times on one client, with or without an image path and with any answers  *)
(* of the platform.                                                         *)
(***************************************************************************)
\* the image paths given to post for a pin: none, or a file saved for it
ImagePaths(p) == {None} \cup {<<p, t>> : t \in Times}

\* bluesky.post(post_text, image_path)
\* (the caller keeps the URI only; the platform's count of posts is left as
\* it is, and the URI is that of the pin's next post)
ClientPost ==
    /\ \E p \in Pins, a \in AuthResponses, u \in UploadResponses,
          c \in CreateResponses :
          \E path \in ImagePaths(p) :
              LET r == post(auth_token, p, created[p] + 1, path, a, u, c)
              IN  /\ auth_token' = r.auth_token
                  /\ ret' = [op |-> "post", token |-> auth_token, pin |-> p,
                             image_path |-> path, auth |-> a, upload |-> u,
                             create |-> c, result |-> r]
    /\ UNCHANGED <<pins, history, txn_open, conn_open, stats, batch, idx,
                   image_result, post_uri, exc, created, pc, interrupted_at>>

PostNext == ClientPost

PostSpec == Init /\ [][PostNext]_vars

(***************************************************************************)
(* Properties                                                               *)
(***************************************************************************)
\* posted, or three errors recorded
Terminal(p) ==
    p \in DOMAIN pins /\ (pins[p].posted = 1 \/ pins[p].error_count >= 3)

BatchPins == {batch[i].pin : i \in 1..Len(batch)}

\* C1: once a record is posted or has error_count >= 3 it stays so through
\* every step of the loop (mark_posted, record_error, whole cycles), and no
\* call of get_next_unposted made from then on returns it.
C1_EligibilityMonotonic ==
    [][\A p \in Pins :
          Terminal(p) =>
             /\ Terminal(p)'
             /\ (pc = "fetch" /\ pc' \in {"idle", "image"}) => p \notin BatchPins'
      ]_vars

\* C1 witness: get_next_unposted has just returned a batch, and a record
\* that reached three errors is not in it.
C1_Witness ==
    /\ pc = "image"
    /\ idx = 1
    /\ \E p \in DOMAIN pins : pins[p].error_count = 3 /\ p \notin BatchPins

\* C2: no pin ever has more than one post_history row, and a mark_posted that
\* returned True left exactly one row for its pin (so a second one failed).
C2_SingleHistory ==
    /\ \A p \in Pins : HistCount(history, p) <= 1
    /\ (ret.op = "mark_posted" /\ ret.ok) => HistCount(history, ret.pin) = 1

\* C3: the platform never holds more than one post of the same pin.
C3_AtMostOnePost ==
    \A p \in Pins : created[p] <= 1

\* C4: the store call that ends a record's processing records exactly one
\* outcome: mark_posted sets posted and appends one history row and leaves
\* error_count alone; record_error adds exactly 1 to error_count and leaves
\* posted and the history alone.
C4_ExactlyOneOutcome ==
    [][/\ (pc = "mark" /\ pc' = "sleep") =>
             /\ pins'[prop.pin].posted = 1
             /\ HistCount(history', prop.pin) = HistCount(history, prop.pin) + 1
             /\ pins'[prop.pin].error_count = pins[prop.pin].error_count
       /\ (pc \in RecordErrorPcs /\ pc' # "shutdown") =>
             /\ pins'[prop.pin].error_count = pins[prop.pin].error_count + 1
             /\ pins'[prop.pin].posted = pins[prop.pin].posted
             /\ history' = history
      ]_vars

\* C5: in every committed store state, a posted record has exactly one
\* history row and a post_date, and a record with a post_date is posted.
C5_PostedHasHistory ==
    ~txn_open =>
        \A p \in DOMAIN pins :
            /\ pins[p].posted = 1 =>
                  HistCount(history, p) = 1 /\ pins[p].post_date # NullTime
            /\ pins[p].post_date # NullTime => pins[p].posted = 1

\* the message main hands to record_error at each of its three call sites
FailureMessage ==
    CASE pc = "rec_image_error" -> image_result.error
      [] pc = "rec_post_failed" -> "Failed to create Bluesky post"
      [] OTHER                  -> exc

\* C6: a failure of process_location or of post for a record takes main to a
\* record_error call for that same record; record_error touches no other
\* record and, when its UPDATE takes effect, adds one error with the
\* failure's message; the batch is kept and the loop goes on with the next
\* record of the same batch.  Only a KeyboardInterrupt leaves a batch early.
C6_FailureKeepsBatch ==
    [][/\ (pc = "image" /\ image_result'.status = "error" /\ pc' # "shutdown") =>
             pc' = "rec_image_error" /\ batch' = batch /\ idx' = idx
       /\ (pc = "post" /\ pc' \notin {"mark", "shutdown"}) =>
             pc' \in {"rec_post_failed", "rec_exception"} /\ batch' = batch /\ idx' = idx
       /\ (pc \in RecordErrorPcs /\ pc' # "shutdown") =>
             /\ \A q \in DOMAIN pins : q # prop.pin => pins'[q] = pins[q]
             /\ pins'[prop.pin].error_count \in
                    {pins[prop.pin].error_count, pins[prop.pin].error_count + 1}
             /\ pins'[prop.pin].error_count = pins[prop.pin].error_count + 1 =>
                    pins'[prop.pin].last_error = FailureMessage
             /\ batch' = batch
             /\ IF idx < Len(batch)
                THEN \/ pc' = "sleep" /\ idx' = idx
                     \/ pc' = "image" /\ idx' = idx + 1
                ELSE pc' \in {"sleep", "stats"}
       /\ (pc = "sleep" /\ idx < Len(batch) /\ pc' # "shutdown") =>
             pc' = "image" /\ idx' = idx + 1 /\ batch' = batch
      ]_vars

\* C6 witness: the first record of a batch of two failed in post with an
\* exception, the error was recorded, and the second record is being processed.
C6_Witness ==
    /\ Len(batch) = 2
    /\ idx = 2
    /\ pc = "post"
    /\ pins[batch[1].pin].error_count = 1
    /\ pins[batch[1].pin].last_error = "Authentication failed"
    /\ pins[batch[2].pin].error_count = 0

\* C7: whatever store call ends a record's processing, the next thing main
\* does is the pacing sleep.
C7_Pacing ==
    [][(pc \in {"mark"} \cup RecordErrorPcs /\ pc' # "shutdown") => pc' = "sleep"]_vars

\* C8: when the loop has been left, the interrupt did not arrive between
\* taking a record from the batch and recording its outcome.
C8_InterruptOnlyBetweenRecords ==
    pc \in {"shutdown", "done"} => interrupted_at \notin RecordPcs

\* C9: the process ends only after an interrupt, and whenever it has ended
\* the store connection is closed.
C9_ClosedOnExit ==
    pc \in {"done", "crashed"} => interrupted_at # "none" /\ ~conn_open

AllTerminal == \A p \in DOMAIN pins : Terminal(p)

\* C10: left alone, the loop brings every record to a terminal state and then
\* only idles; error_count never exceeds 3; a record is processed only while
\* it has fewer than 3 errors, and every failed processing adds exactly one
\* error (so a record that always fails is processed exactly three times).
C10_Progress ==
    /\ <>[](AllTerminal /\ pc \notin RecordPcs \cup {"sleep"})
    /\ [](\A p \in DOMAIN pins : pins[p].error_count <= 3)
    /\ [](pc \in RecordPcs => pins[prop.pin].error_count < 3)
    /\ [][(pc \in RecordErrorPcs) =>
             pins'[prop.pin].error_count = pins[prop.pin].error_count + 1]_vars

\* C11: a call get_next_unposted(n) that the store answers returns exactly
\* min(n, number of eligible rows) rows, all eligible, in strictly ascending
\* order of pin, and every eligible row left out has a larger pin than every
\* row returned.  (ret.pin holds the limit n of the call.)
C11_Ordering ==
    (ret.op = "get_next_unposted" /\ ret.ok) =>
        /\ Len(batch) = Min(ret.pin, Cardinality(Eligible(pins)))
        /\ \A i \in 1..Len(batch) : batch[i].pin \in Eligible(pins)
        /\ \A i, j \in 1..Len(batch) : i < j => batch[i].pin < batch[j].pin
        /\ \A i \in 1..Len(batch) :
              \A q \in Eligible(pins) \ BatchPins : batch[i].pin < q

\* C11 witness: with two eligible rows and a limit of 1 the call returned
\* only the row of the smallest eligible pin.
C11_Witness ==
    /\ ret.op = "get_next_unposted"
    /\ ret.ok
    /\ ret.pin = 1
    /\ Cardinality(Eligible(pins)) = 2
    /\ Len(batch) = 1
    /\ batch[1].pin = 1

\* C12: every call of get_statistics, on any store (the empty one included),
\* returns a result whose remaining is total - posted - failed, with posted
\* the number of rows with posted = 1 and failed the number with
\* error_count >= 3.
C12_StatisticsConsistent ==
    (ret.op = "get_statistics" /\ ret.ok) =>
        /\ stats # StatsRaised
        /\ stats.total_pins = Cardinality(DOMAIN pins)
        /\ stats.posted_count =
              Cardinality({p \in DOMAIN pins : pins[p].posted = 1})
        /\ stats.failed_count =
              Cardinality({p \in DOMAIN pins : pins[p].error_count >= 3})
        /\ stats.remaining =
              stats.total_pins - stats.posted_count - stats.failed_count

\* C19: mark_posted for a pin that is not in the store returns False and
\* appends no history row.
C19_UnknownPinRejected ==
    (ret.op = "mark_posted" /\ ret.pin \notin DOMAIN pins) =>
        ~ret.ok /\ HistCount(history, ret.pin) = 0

\* C20: add_pin for a pin that is already in the store leaves its row as it
\* was (posted, post_date, error_count, last_error, address), so a posted pin
\* is never offered again.
C20_AddPinKeepsExisting ==
    [][\A p \in DOMAIN pins :
          (ret'.op = "add_pin" /\ ret'.pin = p) => pins'[p] = pins[p]]_vars

\* C18: in a pass of the loop that starts with no eligible row in the store
\* (the store with no row at all included) the loop fetches an empty batch,
\* sleeps the post interval and starts the next pass: it never goes to the
\* cooldown of "except Exception" and processes no record.
C18_GracefulIdle ==
    [][Eligible(pins) = {} =>
          /\ (pc = "stats" => pc' = "fetch")
          /\ (pc = "fetch" => pc' = "idle" /\ batch' = <<>>)
          /\ (pc = "idle" => pc' = "stats")]_vars

\* the store holds the record in hand and nothing else, untouched so far
OnlyRecordFresh ==
    /\ DOMAIN pins = {prop.pin}
    /\ pins[prop.pin].posted = 0
    /\ pins[prop.pin].error_count = 0
    /\ history = <<>>

\* C13: with one eligible record in the store, a pass in which
\* process_location succeeds and post returns a URI goes on to mark_posted,
\* and once mark_posted has committed the record has posted = 1, the history
\* holds exactly one row, with that pin and that URI, error_count is still 0,
\* and get_statistics reports posted_count = 1 and remaining = 0.
C13_EndToEnd ==
    [][/\ (pc = "image" /\ image_result'.status = "success") => pc' = "post"
       /\ (pc = "post" /\ post_uri' # None) => pc' = "mark"
       /\ (pc = "mark" /\ OnlyRecordFresh /\ pc' = "sleep"
              /\ history' # history /\ ~txn_open') =>
             /\ pins'[prop.pin].posted = 1
             /\ pins'[prop.pin].post_date # NullTime
             /\ pins'[prop.pin].error_count = 0
             /\ Len(history') = 1
             /\ history'[1].pin = prop.pin
             /\ history'[1].post_id = post_uri
             /\ get_statistics(pins', TRUE).posted_count = 1
             /\ get_statistics(pins', TRUE).remaining = 0]_vars

\* C13 witness: the pass has run to its sleep with the only record posted,
\* one committed history row of the URI that post returned, and no error
\* counted.
C13_Witness ==
    /\ pc = "sleep"
    /\ post_uri # None
    /\ DOMAIN pins = {prop.pin}
    /\ pins[prop.pin].posted = 1
    /\ pins[prop.pin].error_count = 0
    /\ ~txn_open
    /\ Len(history) = 1
    /\ history[1].post_id = post_uri
    /\ created[prop.pin] = 1

\* the k-th geocode call of the last get_location timed out or found nothing
Transient(k) == ret.outs[k] \in {"timeout", "nomatch"}

\* C14: get_location(address, n) never makes more than n geocode calls; when
\* every call times out or finds no match it makes exactly n calls and
\* returns None; and when a call finds a match after calls that all timed out
\* or found nothing, it returns the location of that call and makes no call
\* after it.
C14_AttemptBound ==
    ret.op = "get_location" =>
        /\ ret.result.calls <= ret.retries
        /\ (\A k \in 1..ret.retries : Transient(k)) =>
              ret.result.calls = ret.retries /\ ret.result.location = None
        /\ \A k \in 1..ret.retries :
              (ret.outs[k] = "match" /\ \A i \in 1..(k - 1) : Transient(i)) =>
                  ret.result.location = <<k>> /\ ret.result.calls = k
        /\ ret.result.location # None =>
              ret.outs[ret.result.calls] = "match"

\* C14 witness: a call with retries = 3 whose geocode calls timed out, found
\* nothing and timed out again made three calls and returned None.
C14_Witness ==
    /\ ret.op = "get_location"
    /\ ret.retries = 3
    /\ ret.outs = <<"timeout", "nomatch", "timeout">>
    /\ ret.result.calls = 3
    /\ ret.result.location = None

\* C15: when a geocode call of get_location raises GeocoderUnavailable, that
\* call is the last one of get_location, which returns None, whichever
\* iteration it was and however many were left.
C15_UnavailableAborts ==
    ret.op = "get_location" =>
        \A k \in 1..ret.retries :
            (ret.outs[k] = "unavailable" /\ \A i \in 1..(k - 1) : Transient(i)) =>
                ret.result.calls = k /\ ret.result.location = None

\* C15 witness: the second of three geocode calls raised GeocoderUnavailable
\* after a timeout, the third would have matched, and get_location returned
\* None after two calls.
C15_Witness ==
    /\ ret.op = "get_location"
    /\ ret.retries = 3
    /\ ret.outs = <<"timeout", "unavailable", "match">>
    /\ ret.result.calls = 2
    /\ ret.result.location = None

\* the last post held a token, or obtained one, when it came to the upload
Authenticated == ret.token # NoToken \/ ret.auth = "200"

\* C16: when post is given an image path and the upload fails (the file
\* cannot be read, the request fails or is answered with an error status),
\* post does not raise; it sends createRecord without an embed as its last
\* request, and returns the URI when that request is answered with 200.
C16_DegradedPublish ==
    (/\ ret.op = "post"
     /\ Authenticated
     /\ ret.image_path # None
     /\ ret.upload # "200") =>
        /\ ret.result.outcome # "raise"
        /\ ret.result.requests # <<>>
        /\ ret.result.requests[Len(ret.result.requests)] = "createRecord"
        /\ "createRecord+embed" \notin Range(ret.result.requests)
        /\ ret.create = "200" =>
              ret.result.outcome = "uri" /\ ret.result.uri # None

\* C16 witness: a post with an image path whose upload request failed
\* returned a URI, having sent uploadBlob and then createRecord.
C16_Witness ==
    /\ ret.op = "post"
    /\ ret.image_path # None
    /\ ret.upload = "request_exception"
    /\ ret.create = "200"
    /\ ret.result.outcome = "uri"
    /\ "uploadBlob" \in Range(ret.result.requests)
    /\ "createRecord" \in Range(ret.result.requests)

\* C17: a post on a client that holds no token sends createSession first;
\* when that fails post raises and sends nothing else; and no post sends
\* createRecord unless the client holds a token at the end of it.
C17_LazyAuthentication ==
    ret.op = "post" =>
        /\ ret.token = NoToken =>
              ret.result.requests # <<>> /\ ret.result.requests[1] = "createSession"
        /\ (ret.token = NoToken /\ ret.auth # "200") =>
              /\ ret.result.outcome = "raise"
              /\ ret.result.requests = <<"createSession">>
        /\ ({"createRecord", "createRecord+embed"} \cap Range(ret.result.requests) # {}) =>
              auth_token # NoToken

\* C17 witness: a post with an image path on a client without a token, whose
\* createSession was answered 401, raised after that one request and left
\* the client without a token.
C17_Witness ==
    /\ ret.op = "post"
    /\ ret.token = NoToken
    /\ ret.auth = "401"
    /\ ret.image_path # None
    /\ ret.result.outcome = "raise"
    /\ ret.result.requests = <<"createSession">>
    /\ auth_token = NoToken

\* the geocoder matched in the last call, after calls that only timed out or
\* found nothing
GeocodingMatched ==
    \E k \in 1..Retries :
        ret.outs[k] = "match" /\ \A i \in 1..(k - 1) : Transient(i)

\* the three error values of process_location
AcquireErrors ==
    {"Geocoding failed", "No Street View image available", "Failed to save image"}

\* what C21 says of every call apart from the condition of success: any other
\* call ends with status error and no path, at most one imagery request is
\* sent, and each cause of failure has its own error value
AcquireFrame(accepted) ==
    /\ ret.result.status \in {"success", "error"}
    /\ ret.result.status = "error" => ret.result.image_path = None
    /\ ret.requests <= 1
    /\ ~GeocodingMatched => ret.result.error = "Geocoding failed"
    /\ (GeocodingMatched /\ ~accepted) =>
          ret.result.error = "No Street View image available"
    /\ (GeocodingMatched /\ accepted /\ ~ret.wr) =>
          ret.result.error = "Failed to save image"
    /\ Cardinality(AcquireErrors) = 3

\* C21 as stated: process_location ends with status success and an image
\* path exactly when geocoding returned a location, the imagery request was
\* answered 200 with an image content type, and the write succeeded; every
\* other call ends with status error and no path, at most one imagery request
\* is sent, and the three causes of failure have different error values.
C21_ImageAcceptance ==
    ret.op = "process_location" =>
        LET accepted == ret.resp \in {"200_image", "200_image_empty"}
        IN  /\ (ret.result.status = "success" /\ ret.result.image_path # None)
                  <=> (GeocodingMatched /\ accepted /\ ret.wr)
            /\ AcquireFrame(accepted)

\* C21 amended: as C21, with success requiring in addition that the body of
\* the 200 answer is not empty; a 200 answer with an image content type and
\* an empty body is reported as "No Street View image available".
C21_ImageAcceptanceNonEmpty ==
    ret.op = "process_location" =>
        LET accepted == ret.resp = "200_image"
        IN  /\ (ret.result.status = "success" /\ ret.result.image_path # None)
                  <=> (GeocodingMatched /\ accepted /\ ret.wr)
            /\ AcquireFrame(accepted)

\* C21 witness: a call whose geocoding matched, whose imagery request was
\* answered with an image and whose write succeeded ended with status
\* success and a path, after one imagery request.
C21_Witness ==
    /\ ret.op = "process_location"
    /\ GeocodingMatched
    /\ ret.resp = "200_image"
    /\ ret.wr
    /\ ret.requests = 1
    /\ ret.result.status = "success"
    /\ ret.result.image_path # None

\* the statements of main that call db.mark_posted or db.record_error and go
\* on to the sleep
RecordCallPcs == {"mark", "rec_post_failed", "rec_exception"}

\* C22: bluesky.post is reached for a record only from process_location
\* having returned status success for that record; db.mark_posted only from
\* post having returned a URI for that record; the sleep and the next record
\* only from a call of mark_posted or record_error for the record in hand;
\* and get_next_unposted is called again only when that has happened for the
\* last record of the batch.
C22_PipelineOrder ==
    [][/\ pc' = "post" =>
             /\ pc = "image"
             /\ idx' = idx
             /\ image_result'.status = "success"
             /\ image_result'.pin = prop.pin
       /\ pc' = "mark" =>
             /\ pc = "post"
             /\ idx' = idx
             /\ post_uri' # None
             /\ post_uri'[1] = prop.pin
       /\ pc' = "sleep" => pc \in RecordCallPcs /\ idx' = idx
       /\ (pc # "fetch" /\ idx' # idx) =>
             /\ pc \in {"sleep", "rec_image_error"}
             /\ idx' = idx + 1
             /\ pc' = "image"
       /\ (pc \notin {"idle", "cooldown"} /\ pc' = "stats") =>
             pc \in {"sleep", "rec_image_error"} /\ idx = Len(batch)
       /\ pc' = "fetch" => pc = "stats"
       /\ batch' # batch => pc = "fetch"]_vars

\* C22 witness: a batch of two has been worked through, the first record
\* posted and the second with an error counted, and the loop is about to call
\* get_next_unposted again.
C22_Witness ==
    /\ pc = "fetch"
    /\ Len(batch) = 2
    /\ idx = 2
    /\ pins[batch[1].pin].posted = 1
    /\ pins[batch[2].pin].error_count = 1

\* the seconds the claim gives to the pause after the k-th geocode call of
\* the last get_location (attempt k - 1): 2^(k-1) after a timeout, 1 after an
\* empty answer, none after a match, GeocoderUnavailable or another exception
BackoffDelay(k) ==
    CASE ret.outs[k] = "timeout" -> 2 ^ (k - 1)
      [] ret.outs[k] = "nomatch" -> 1
      [] OTHER                   -> 0

\* the pauses after the first k calls, added up
RECURSIVE BackoffThrough(_)
BackoffThrough(k) == IF k = 0 THEN 0 ELSE BackoffThrough(k - 1) + BackoffDelay(k)

\* C23: the seconds get_location sleeps are, call by call, 2^k after the
\* timeout of attempt k (k from 0), 1 after an attempt without a match, and
\* nothing after a match or GeocoderUnavailable; three timeouts with
\* retries = 3 sleep 1 + 2 + 4 = 7 seconds.
C23_ExponentialBackoff ==
    ret.op = "get_location" =>
        /\ ret.result.slept = BackoffThrough(ret.result.calls)
        /\ (ret.result.calls > 0
               /\ ret.outs[ret.result.calls] \in {"match", "unavailable"}) =>
              ret.result.slept = BackoffThrough(ret.result.calls - 1)
        /\ (ret.retries = 3 /\ \A k \in 1..3 : ret.outs[k] = "timeout") =>
              ret.result.slept = 7

\* C23 witness: a call with retries = 3 whose three geocode calls timed out
\* slept 7 seconds.
C23_Witness ==
    /\ ret.op = "get_location"
    /\ ret.retries = 3
    /\ ret.outs = <<"timeout", "timeout", "timeout">>
    /\ ret.result.calls = 3
    /\ ret.result.slept = 7

\* C24: whenever get_statistics reports a value of remaining, it is the
\* number of rows get_next_unposted would return without a limit (posted = 0
\* and error_count < 3).
C24_RemainingIsEligible ==
    (ret.op = "get_statistics" /\ ret.ok /\ stats # StatsRaised) =>
        stats.remaining = Cardinality(Eligible(pins))

\* C25: a post sends createSession exactly when the client holds no token
\* when it is called; a client that holds a token holds the same token after
\* every later post, whatever the platform answers to uploadBlob and
\* createRecord, and whether the post returns a URI, returns None or raises.
C25_SessionOneWay ==
    [][ret'.op = "post" =>
          /\ ("createSession" \in Range(ret'.result.requests))
                <=> (auth_token = NoToken)
          /\ auth_token # NoToken => auth_token' = auth_token]_vars

\* C25 witness: a post on a client that held a token had its createRecord
\* refused, returned None without sending createSession, and the client still
\* holds the token.
C25_Witness ==
    /\ ret.op = "post"
    /\ ret.token = "jwt"
    /\ ret.create = "error_status"
    /\ ret.result.outcome = "none"
    /\ "createSession" \notin Range(ret.result.requests)
    /\ auth_token = "jwt"

====
